---- MODULE Spec2Model ----
(***************************************************************************)
(* Model of cell_counts.py: the hierarchy inference (check_starting_gate,  *)
(* ask_starting_gate, yes_no, find_parent_gate) and the count propagation  *)
(* (TubeData.calculate_cell_counts) for one experiment file and one tube.  *)
(*                                                                         *)
(* A gate name is kept as the sequence of its "/"-separated segments, that *)
(* is, as the value of name.split("/"); the empty string is <<"">>.        *)
(* A Decimal is the pair coefficient/exponent that Python stores: the      *)
(* record [c, e] stands for c * 10^e.  The blank count "" of an ignored    *)
(* gate is the record Blank.  Python list indexes are 0-based and kept so  *)
(* in calc_list; TLA+ sequences are 1-based.                               *)
(***************************************************************************)
EXTENDS Integers, Sequences, FiniteSets, TLC

VARIABLES
    g_list,               \* gate_order / gate_list: the cleaned gate names, column order
    raw_percent,          \* TubeData.raw_percent: the row's percent cells (strings)
    percent_list,         \* TubeData.percent_list
    cell_conc,            \* TubeData.cell_conc
    count_list,           \* TubeData.count_list
    pc,                   \* position of main(), or the exception/exit that ended it
    only_one_start_gate,  \* check_starting_gate locals
    lengths_checked,
    redundant_lengths,
    longest_shared,
    min_gate,
    answer,               \* ask_starting_gate: last line typed at its prompt
    int_answer,
    yn_answer,            \* yes_no: last line typed at its prompt
    prompts,              \* number of times ask_starting_gate has printed its prompt
    starting_gate_list,
    ignore_list,
    calc_list,
    runs                  \* number of calls of calculate_cell_counts on the tube

vars == <<g_list, raw_percent, percent_list, cell_conc, count_list, pc,
          only_one_start_gate, lengths_checked, redundant_lengths,
          longest_shared, min_gate, answer, int_answer, yn_answer, prompts,
          starting_gate_list, ignore_list, calc_list, runs>>

----------------------------------------------------------------------------
(* Bounds *)

MaxLen == 4        \* gates in one export
MaxPrompts == 2    \* prompts of ask_starting_gate in one run
MaxRuns == 2       \* calls of calculate_cell_counts on one tube

(* The gate names an export may hold. *)
Paths ==
    { <<"A">>, <<"B">>, <<"C">>, <<"A", "B">>, <<"A", "C">>,
      <<"A", "B", "D">>, <<"X", "Y">> }

(* Lines the user may type. *)
RawPercents == {"80", "50"}
ConcAnswers == {"10", "2.5"}
LevelAnswers == {"0", "1", "2", "3", "4", "x"}
YesNoAnswers == {"Q", "no", "y"}

----------------------------------------------------------------------------
(* decimal.Decimal *)

(* Decimal(s) for the strings above. *)
DecimalOf(s) ==
    CASE s = "80"  -> [blank |-> FALSE, c |-> 80,  e |-> 0]
      [] s = "50"  -> [blank |-> FALSE, c |-> 50,  e |-> 0]
      [] s = "10"  -> [blank |-> FALSE, c |-> 10,  e |-> 0]
      [] s = "2.5" -> [blank |-> FALSE, c |-> 25,  e |-> -1]

(* Division keeps the exact quotient and strips trailing zeros of the
   coefficient until the exponent reaches the ideal one (the dividend's). *)
RECURSIVE DecReduce(_, _, _)
DecReduce(c, e, ideal) ==
    IF e < ideal /\ c % 10 = 0
    THEN DecReduce(c \div 10, e + 1, ideal)
    ELSE [blank |-> FALSE, c |-> c, e |-> e]

DecDiv100(d) == DecReduce(d.c, d.e - 2, d.e)

(* Faulty variant of DecMul: the second factor's exponent is dropped. *)
DecMul_KeepsExponent(a, b) == [blank |-> FALSE, c |-> a.c * b.c, e |-> a.e]

(* Multiplication: coefficients multiply, exponents add. *)
DecMul(a, b) == [blank |-> FALSE, c |-> a.c * b.c, e |-> a.e + b.e]

(* The "" stored for an ignored gate. *)
Blank == [blank |-> TRUE, c |-> 0, e |-> 0]

----------------------------------------------------------------------------
(* TubeData *)

convert_to_decimal(raw) == [n \in 1..Len(raw) |-> DecDiv100(DecimalOf(raw[n]))]

RECURSIVE CalcLoop(_, _, _, _, _)
CalcLoop(calc, n, conc, pl, cl) ==
    IF n > Len(calc) THEN [cl |-> cl, err |-> "none"]
    ELSE LET i == calc[n] IN
         IF i.tag = "start"
         THEN CalcLoop(calc, n + 1, conc, pl, Append(cl, DecMul(conc, pl[n])))
         ELSE IF i.tag = "ignore"
         THEN CalcLoop(calc, n + 1, conc, pl, Append(cl, Blank))
         ELSE IF i.idx + 1 > Len(cl)
         THEN [cl |-> cl, err |-> "IndexError"]
         ELSE IF cl[i.idx + 1].blank
         THEN [cl |-> cl, err |-> "TypeError"]
         ELSE CalcLoop(calc, n + 1, conc, pl,
                       Append(cl, DecMul(cl[i.idx + 1], pl[n])))

----------------------------------------------------------------------------
(* process_csv *)

number_of_gates(gate) == Len(gate)

(* gates_dict.values() in insertion order (gate names are distinct). *)
gates_values(gl) == [n \in 1..Len(gl) |-> number_of_gates(gl[n])]

----------------------------------------------------------------------------
(* check_starting_gate *)

RECURSIVE ScanLengths(_, _, _)
ScanLengths(vals, n, st) ==
    IF n > Len(vals) THEN st
    ELSE LET length == vals[n] IN
         IF length \in st.checked /\ length = 1
         THEN [st EXCEPT !.only_one = FALSE]
         ELSE ScanLengths(vals, n + 1,
                [checked   |-> st.checked \cup {length},
                 redundant |-> IF length \in st.checked
                               THEN st.redundant \cup {length}
                               ELSE st.redundant,
                 only_one  |-> st.only_one])

(* Faulty variant of SetMax: the least element. *)
SetMax_Least(S) == CHOOSE x \in S : \A y \in S : x <= y

SetMax(S) == CHOOSE x \in S : \A y \in S : y <= x

RECURSIVE FindMinGate(_, _, _, _)
FindMinGate(gl, n, depth, found) ==
    IF n > Len(gl) THEN found
    ELSE FindMinGate(gl, n + 1, depth,
                     IF number_of_gates(gl[n]) = depth THEN gl[n] ELSE found)

InCatalog(gl, gate) == \E n \in 1..Len(gl) : gl[n] = gate

ShallowerGates(gl, depth) ==
    LET keep(gate) == number_of_gates(gate) < depth IN SelectSeq(gl, keep)

(* Faulty variant of DepthOneGates: the gates of depth 1 met up to the
   second one, where the scan stopped. *)
DepthOneGates_UpToSecond(gl) ==
    LET keep(gate) == number_of_gates(gate) = 1
    IN SubSeq(SelectSeq(gl, keep), 1, 2)

DepthOneGates(gl) ==
    LET keep(gate) == number_of_gates(gate) = 1 IN SelectSeq(gl, keep)

----------------------------------------------------------------------------
(* ask_starting_gate, yes_no *)

IsInt(a) == a \in {"0", "1", "2", "3", "4"}

IntOf(a) ==
    CASE a = "0" -> 0 [] a = "1" -> 1 [] a = "2" -> 2 [] a = "3" -> 3
      [] a = "4" -> 4

(* Faulty variant of InRange: level 0 is accepted. *)
InRange_FromZero(k, gate) == 0 <= k /\ k <= Len(gate)

InRange(k, gate) == 0 < k /\ k <= Len(gate)

(* "/".join(min_gate.split("/")[:k]); the join of no segment is "". *)
JoinPrefix(gate, k) == IF k <= 0 THEN <<"">> ELSE SubSeq(gate, 1, k)

Lower(a) == CASE a = "Q" -> "q" [] OTHER -> a

QuitWords == {"n", "no", "quit", "q"}

----------------------------------------------------------------------------
(* find_parent_gate *)

(* Faulty variant of RSplitHead: the first segment, not all but the last. *)
RSplitHead_FirstSegment(gate) == SubSeq(gate, 1, 1)

(* population.rsplit("/", 1)[0] *)
RSplitHead(gate) ==
    IF Len(gate) = 1 THEN gate ELSE SubSeq(gate, 1, Len(gate) - 1)

(* g_list.index(x), as the 0-based index; -1 stands for ValueError. *)
ListIndex(gl, x) ==
    IF InCatalog(gl, x)
    THEN (CHOOSE n \in 1..Len(gl) :
             gl[n] = x /\ \A m \in 1..(n - 1) : gl[m] # x) - 1
    ELSE -1

InList(l, x) == \E n \in 1..Len(l) : l[n] = x

ParentRef(sl, gl, il, population) ==
    IF InList(sl, population) THEN [tag |-> "start", idx |-> 0]
    ELSE IF InList(il, population) THEN [tag |-> "ignore", idx |-> 0]
    ELSE [tag |-> "index", idx |-> ListIndex(gl, RSplitHead(population))]

find_parent_gate(sl, gl, il) ==
    [n \in 1..Len(gl) |-> ParentRef(sl, gl, il, gl[n])]

----------------------------------------------------------------------------
(* The run *)

Catalogs ==
    { gl \in UNION { [1..n -> Paths] : n \in 0..MaxLen } :
        \A i, j \in 1..Len(gl) : i # j => gl[i] # gl[j] }

Init ==
    /\ g_list \in Catalogs
    /\ raw_percent \in [1..Len(g_list) -> RawPercents]
    /\ percent_list = convert_to_decimal(raw_percent)
    /\ \E a \in ConcAnswers : cell_conc = DecimalOf(a)
    /\ count_list = <<>>
    /\ pc = "check"
    /\ only_one_start_gate = TRUE
    /\ lengths_checked = {}
    /\ redundant_lengths = {}
    /\ longest_shared = 0
    /\ min_gate = <<"">>
    /\ answer = ""
    /\ int_answer = 0
    /\ yn_answer = ""
    /\ prompts = 0
    /\ starting_gate_list = <<>>
    /\ ignore_list = <<>>
    /\ calc_list = <<>>
    /\ runs = 0

(* check_starting_gate up to the first prompt of ask_starting_gate *)
CheckStartingGate ==
    /\ pc = "check"
    /\ LET st == ScanLengths(gates_values(g_list), 1,
                   [checked |-> {}, redundant |-> {}, only_one |-> TRUE])
           unique == st.checked \ st.redundant
       IN /\ only_one_start_gate' = st.only_one
          /\ lengths_checked' = st.checked
          /\ redundant_lengths' = st.redundant
          /\ IF ~st.only_one
             THEN /\ starting_gate_list' = DepthOneGates(g_list)
                  /\ pc' = "resolved"
                  /\ UNCHANGED <<longest_shared, min_gate, prompts>>
             ELSE IF unique = {}
             THEN /\ pc' = "ValueError_max"
                  /\ UNCHANGED <<longest_shared, min_gate, prompts,
                                 starting_gate_list>>
             ELSE /\ longest_shared' = SetMax(unique)
                  /\ min_gate' = FindMinGate(g_list, 1, SetMax(unique), <<"">>)
                  /\ prompts' = 1
                  /\ pc' = "ask"
                  /\ UNCHANGED starting_gate_list
    /\ UNCHANGED <<g_list, raw_percent, percent_list, cell_conc, count_list,
                   answer, int_answer, yn_answer, ignore_list, calc_list, runs>>

(* One line typed at the prompt of ask_starting_gate.  A level in range ends
   the loop, and check_starting_gate goes on to its return. *)
AskStartingGate ==
    /\ pc = "ask"
    /\ \E a \in LevelAnswers :
        /\ answer' = a
        /\ IF IsInt(a) /\ InRange(IntOf(a), min_gate)
           THEN LET start_gate_str == JoinPrefix(min_gate, IntOf(a)) IN
                /\ int_answer' = IntOf(a)
                /\ starting_gate_list' = <<start_gate_str>>
                /\ IF InCatalog(g_list, start_gate_str)
                   THEN /\ ignore_list' =
                             ShallowerGates(g_list, number_of_gates(start_gate_str))
                        /\ pc' = "resolved"
                   ELSE /\ pc' = "KeyError"
                        /\ UNCHANGED ignore_list
           ELSE /\ int_answer' = IF IsInt(a) THEN IntOf(a) ELSE int_answer
                /\ pc' = "yes_no"
                /\ UNCHANGED <<starting_gate_list, ignore_list>>
    /\ UNCHANGED <<g_list, raw_percent, percent_list, cell_conc, count_list,
                   only_one_start_gate, lengths_checked, redundant_lengths,
                   longest_shared, min_gate, yn_answer, prompts, calc_list,
                   runs>>

(* yes_no called from ask_starting_gate *)
YesNo ==
    /\ pc = "yes_no"
    /\ \E a \in YesNoAnswers :
        /\ yn_answer' = a
        /\ IF Lower(a) \in QuitWords
           THEN /\ pc' = "exit"
                /\ UNCHANGED prompts
           ELSE /\ prompts < MaxPrompts
                /\ prompts' = prompts + 1
                /\ pc' = "ask"
    /\ UNCHANGED <<g_list, raw_percent, percent_list, cell_conc, count_list,
                   only_one_start_gate, lengths_checked, redundant_lengths,
                   longest_shared, min_gate, answer, int_answer,
                   starting_gate_list, ignore_list, calc_list, runs>>

FindParentGate ==
    /\ pc = "resolved"
    /\ LET cl == find_parent_gate(starting_gate_list, g_list, ignore_list) IN
       IF \E n \in 1..Len(cl) : cl[n].tag = "index" /\ cl[n].idx = -1
       THEN /\ pc' = "ValueError_index"
            /\ UNCHANGED calc_list
       ELSE /\ pc' = "indexed"
            /\ calc_list' = cl
    /\ UNCHANGED <<g_list, raw_percent, percent_list, cell_conc, count_list,
                   only_one_start_gate, lengths_checked, redundant_lengths,
                   longest_shared, min_gate, answer, int_answer, yn_answer,
                   prompts, starting_gate_list, ignore_list, runs>>

(* tube.calculate_cell_counts(calc_list).  main() calls it once for each
   tube, and the tubes do not share state, so one tube is followed; a
   further call on the same tube is a caller running the method again. *)
CalculateCellCounts ==
    /\ pc \in {"indexed", "counted"}
    /\ runs < MaxRuns
    /\ LET r == CalcLoop(calc_list, 1, cell_conc, percent_list, count_list) IN
       /\ count_list' = r.cl
       /\ pc' = IF r.err = "none" THEN "counted" ELSE r.err
    /\ runs' = runs + 1
    /\ UNCHANGED <<g_list, raw_percent, percent_list, cell_conc,
                   only_one_start_gate, lengths_checked, redundant_lengths,
                   longest_shared, min_gate, answer, int_answer, yn_answer,
                   prompts, starting_gate_list, ignore_list, calc_list>>

Next ==
    \/ CheckStartingGate
    \/ AskStartingGate
    \/ YesNo
    \/ FindParentGate
    \/ CalculateCellCounts

Spec == Init /\ [][Next]_vars

----------------------------------------------------------------------------
(* What the properties below are stated with.  These are written from the
   definitions of depth, parent and product, not from the operators above. *)

RefSet(l) == { l[n] : n \in 1..Len(l) }

RefOccurs(gl, d) == Cardinality({ n \in 1..Len(gl) : Len(gl[n]) = d })

RefDepthsOnce(gl) ==
    { d \in { Len(gl[n]) : n \in 1..Len(gl) } : RefOccurs(gl, d) = 1 }

RefGreatest(S) == CHOOSE x \in S : \A y \in S : x >= y

RefFirstOfDepth(gl, d) ==
    gl[CHOOSE n \in 1..Len(gl) :
          Len(gl[n]) = d /\ \A m \in 1..(n - 1) : Len(gl[m]) # d]

RefDigit(k) == CASE k = 1 -> "1" [] k = 2 -> "2" [] k = 3 -> "3" [] OTHER -> "?"

(* A percent cell as a fraction, in tenths: "80" is 80/100 = 8/10. *)
RefTenths(s) == CASE s = "80" -> 8 [] s = "50" -> 5

RECURSIVE RefPow10(_)
RefPow10(n) == IF n <= 0 THEN 1 ELSE 10 * RefPow10(n - 1)

(* The value of a Decimal times 10^scale, an integer when scale >= -e. *)
RefScaled(d, scale) == d.c * RefPow10(d.e + scale)

(* Each non-root gate's immediate parent stands earlier in the catalog. *)
RefCatalogOrdered(gl) ==
    \A n \in 1..Len(gl) :
        Len(gl[n]) > 1 =>
            \E m \in 1..(n - 1) : gl[m] = SubSeq(gl[n], 1, Len(gl[n]) - 1)

(* A gate that is neither a start gate nor ignored and whose immediate
   parent is no entry of the catalog. *)
RefOrphan(p) ==
    /\ Len(p) > 1
    /\ p \notin RefSet(starting_gate_list)
    /\ p \notin RefSet(ignore_list)
    /\ SubSeq(p, 1, Len(p) - 1) \notin RefSet(g_list)

(* Positions of main() *)
InAskLoop == pc \in {"ask", "yes_no"}
ParentsIndexed == pc \in {"indexed", "counted", "TypeError", "IndexError"}

----------------------------------------------------------------------------
(* C1: when depth 1 occurs at least twice in the catalog, check_starting_gate
   classifies it as multi-rooted: the start gates are exactly the catalog's
   gates of depth 1 (each once, those after the second one included), the
   ignore list is empty and ask_starting_gate is never called. *)
C1_MultiRoot ==
    (pc # "check" /\ RefOccurs(g_list, 1) >= 2) =>
        /\ only_one_start_gate = FALSE
        /\ RefSet(starting_gate_list) = { p \in RefSet(g_list) : Len(p) = 1 }
        /\ Len(starting_gate_list) = RefOccurs(g_list, 1)
        /\ ignore_list = <<>>
        /\ prompts = 0
        /\ pc \notin {"ask", "yes_no", "exit", "KeyError", "ValueError_max"}

C1_Witness ==
    /\ pc = "resolved"
    /\ RefOccurs(g_list, 1) >= 3
    /\ Len(g_list[3]) > 1
    /\ g_list[Len(g_list)] = <<"C">>

(* C2: when no depth 1 is repeated, the gate shown by ask_starting_gate is
   the first gate in catalog order whose depth is the greatest of the depths
   that occur exactly once in the catalog. *)
C2_Candidate ==
    prompts > 0 =>
        /\ RefDepthsOnce(g_list) # {}
        /\ longest_shared = RefGreatest(RefDepthsOnce(g_list))
        /\ min_gate = RefFirstOfDepth(g_list, RefGreatest(RefDepthsOnce(g_list)))

C2_Witness ==
    /\ pc = "ask"
    /\ Len(g_list) >= 3
    /\ \E d \in 1..3 : d > longest_shared /\ RefOccurs(g_list, d) >= 2

(* C3 (as claimed): for every level k in 1..depth(anchor) typed at the
   prompt, check_starting_gate returns with the first k segments of the
   anchor as the only start gate and with exactly the gates of depth < k
   ignored, whether or not that prefix is an entry of the catalog. *)
C3_EveryLevelCompletes ==
    (prompts > 0 /\ ~InAskLoop /\ pc # "exit") =>
        /\ pc # "KeyError"
        /\ int_answer \in 1..Len(min_gate)
        /\ starting_gate_list = <<SubSeq(min_gate, 1, int_answer)>>
        /\ RefSet(ignore_list) = { p \in RefSet(g_list) : Len(p) < int_answer }

(* C4: find_parent_gate returns one reference per catalog entry, in catalog
   order: "start" exactly for the start gates, "ignore" exactly for the
   ignored gates that are no start gate, and otherwise the index of the
   entry that is the gate without its last segment. *)
C4_ParentRefs ==
    ParentsIndexed =>
        /\ Len(calc_list) = Len(g_list)
        /\ \A n \in 1..Len(g_list) :
            LET p == g_list[n]
                r == calc_list[n]
            IN /\ (r.tag = "start") <=> (p \in RefSet(starting_gate_list))
               /\ (r.tag = "ignore") <=>
                     (p \in RefSet(ignore_list) /\ p \notin RefSet(starting_gate_list))
               /\ r.tag \in {"start", "ignore", "index"}
               /\ r.tag = "index" =>
                     /\ r.idx \in 0..(Len(g_list) - 1)
                     /\ r.idx + 1 # n
                     /\ Len(p) = Len(g_list[r.idx + 1]) + 1
                     /\ SubSeq(p, 1, Len(p) - 1) = g_list[r.idx + 1]

C4_Witness ==
    /\ pc = "indexed"
    /\ \E n \in 1..Len(calc_list) : calc_list[n].tag = "ignore"
    /\ \E n \in 1..Len(calc_list) :
          /\ calc_list[n].tag = "index"
          /\ Len(g_list[n]) = 3
          /\ calc_list[calc_list[n].idx + 1].tag = "start"

(* C5 (as claimed): once the start gates are chosen, a catalog gate that is
   neither a start gate nor ignored and whose immediate parent is absent
   from the catalog makes the run end in the exception find_parent_gate
   raises for the missing parent, with no reference list and no counts. *)
C5_OrphanEndsInIndexerError ==
    (starting_gate_list # <<>> /\ pc # "resolved"
        /\ \E n \in 1..Len(g_list) : RefOrphan(g_list[n])) =>
        /\ pc = "ValueError_index"
        /\ calc_list = <<>>
        /\ count_list = <<>>

(* The gates from position n up to its start gate, n included, and the
   product of their percent fractions in tenths. *)
RECURSIVE RefLevels(_)
RefLevels(n) ==
    IF calc_list[n].tag = "index" THEN 1 + RefLevels(calc_list[n].idx + 1) ELSE 1

RECURSIVE RefProduct(_)
RefProduct(n) ==
    RefTenths(raw_percent[n])
        * (IF calc_list[n].tag = "index"
           THEN RefProduct(calc_list[n].idx + 1) ELSE 1)

(* C6: after one completed call of calculate_cell_counts the count list has
   the catalog's length; a start gate holds concentration * percent, an
   ignored gate holds the blank, a gate with parent index j holds
   count[j] * percent, where percent is the raw percentage over 100.  Hence
   a counted gate holds the concentration times the product of the percents
   from its start gate down to it. *)
C6_Counts ==
    (pc = "counted" /\ runs = 1) =>
        /\ Len(count_list) = Len(g_list)
        /\ \A n \in 1..Len(g_list) :
            LET r == calc_list[n]
                cnt == count_list[n]
                pct == RefTenths(raw_percent[n])
            IN CASE r.tag = "start" ->
                      /\ ~cnt.blank
                      /\ RefScaled(cnt, 4) * 10 = RefScaled(cell_conc, 4) * pct
                 [] r.tag = "ignore" -> cnt = Blank
                 [] OTHER ->
                      /\ ~cnt.blank
                      /\ ~count_list[r.idx + 1].blank
                      /\ RefScaled(cnt, 4) * 10
                            = RefScaled(count_list[r.idx + 1], 4) * pct
                      /\ RefScaled(cnt, 4) * RefPow10(RefLevels(n))
                            = RefScaled(cell_conc, 4) * RefProduct(n)

C6_Witness ==
    /\ pc = "counted"
    /\ runs = 1
    /\ \E n \in 1..Len(g_list) : calc_list[n].tag = "ignore"
    /\ \E n \in 1..Len(g_list) :
          /\ calc_list[n].tag = "index"
          /\ raw_percent[n] = "50"
          /\ calc_list[calc_list[n].idx + 1].tag = "start"
          /\ raw_percent[calc_list[n].idx + 1] = "80"
          /\ RefScaled(cell_conc, 0) = 10
          /\ RefScaled(count_list[calc_list[n].idx + 1], 2) = 800
          /\ RefScaled(count_list[n], 2) = 400

(* C7 (as claimed): a second call of calculate_cell_counts with the same
   reference list leaves the tube's count list as the first call left it. *)
C7_SecondRunSameCounts ==
    [][(pc = "counted" /\ pc' = "counted") => count_list' = count_list]_vars

(* C8 (as claimed): a line that is no number or out of range only leads to
   another prompt, never to the end of the run; the loop of
   ask_starting_gate is left only with an integer k in 1..depth(anchor),
   and the first k segments of the anchor are returned. *)
C8_LoopLeftOnlyWithLevel ==
    [][(InAskLoop /\ ~InAskLoop') =>
          \E k \in 1..Len(min_gate) :
              /\ answer' = RefDigit(k)
              /\ int_answer' = k
              /\ starting_gate_list' = <<SubSeq(min_gate, 1, k)>>]_vars

(* C8 (amended): a line that is no number or out of range leads to the
   question of yes_no; unless the user answers it with n, no, quit or q,
   which ends the run, the level is asked again.  The loop returns only
   with an integer k in 1..depth(anchor) and the first k segments. *)
C8_LoopLeftWithLevelOrQuit ==
    [][/\ (pc = "ask" /\ pc' # "yes_no") =>
              /\ pc' \notin {"ask", "exit"}
              /\ \E k \in 1..Len(min_gate) :
                    /\ answer' = RefDigit(k)
                    /\ int_answer' = k
                    /\ starting_gate_list' = <<SubSeq(min_gate, 1, k)>>
       /\ (pc = "ask" /\ pc' = "yes_no") =>
              /\ \A k \in 1..Len(min_gate) : answer' # RefDigit(k)
              /\ UNCHANGED <<starting_gate_list, ignore_list, prompts>>
       /\ pc = "yes_no" =>
              \/ /\ pc' = "exit"
                 /\ yn_answer' \in {"n", "no", "quit", "q", "Q"}
              \/ /\ pc' = "ask"
                 /\ yn_answer' \notin {"n", "no", "quit", "q", "Q"}
                 /\ prompts' = prompts + 1
                 /\ UNCHANGED <<min_gate, starting_gate_list>>]_vars

C8_Witness ==
    /\ pc = "resolved"
    /\ prompts = 2
    /\ yn_answer = "y"
    /\ int_answer = 2
    /\ Len(min_gate) = 3

(* C9 (as claimed): on a catalog in which every non-root gate's immediate
   parent stands earlier, calculate_cell_counts never fails, whatever
   classification check_starting_gate produced. *)
C9_OrderedCatalogNeverFails ==
    RefCatalogOrdered(g_list) => pc \notin {"TypeError", "IndexError"}

(* C10 (as claimed): on a non-empty catalog with no repeated depth 1, some
   depth occurs exactly once and check_starting_gate reaches the prompt of
   ask_starting_gate; it does not end in an exception of its own. *)
C10_CandidateExists ==
    (pc # "check" /\ Len(g_list) > 0 /\ RefOccurs(g_list, 1) < 2) =>
        /\ RefDepthsOnce(g_list) # {}
        /\ prompts > 0
        /\ pc # "ValueError_max"

====
